---- MODULE Spec2Model ----
(***************************************************************************)
(* Spoke tension meter (src/main.js): the measurement session of the       *)
(* measure button, the zero-crossing frequency estimator, the trimmed      *)
(* statistics and the history list.                                        *)
(*                                                                         *)
(* src/main.js holds two successive versions of the script: lines 1-322    *)
(* (first version) and lines 323-645 (second version).  The variable       *)
(* `version` selects the one that is loaded: Spec runs the second version, *)
(* SpecV1 the first.  SpecPure applies the functions of the second         *)
(* version's handler (getFrequency, the clamps, the statistics) to         *)
(* arguments drawn from bounded sets.                                      *)
(*                                                                         *)
(* Numbers.  A JavaScript number is modelled exactly: a frequency is a     *)
(* rational <<n, d>> in lowest terms with d > 0; what parseFloat returns   *)
(* for a form field is either NaN (an empty or non-numeric field) or       *)
(* Num(x), x an integer in the unit named where the field is read          *)
(* (milliseconds, hundredths, millimetres, hundredths of a millimetre).    *)
(***************************************************************************)
EXTENDS Integers, Sequences, FiniteSets

VARIABLES
    version,            \* which version of the script is loaded (1 or 2)
    audioContext,       \* main.js:460  "undefined" | "null" | "object"
    mediaStream,        \* main.js:460
    analyser,           \* main.js:460
    sampleRate,         \* audioContext.sampleRate of the context last created
    openContexts,       \* AudioContexts created and not yet closed
    liveStreams,        \* media streams whose tracks are not yet stopped
    samples,            \* main.js:461  the Reading Set
    measureBtnDisabled, \* measureBtn.disabled
    saveBtnDisabled,    \* saveBtn.disabled (first version only)
    status,             \* statusEl.textContent: "ready" | "recording"
    display,            \* the four result fields of the page
    history,            \* main.js:369
    sess,               \* one record per invocation of the click handler
    nclicks,            \* click handler invocations so far
    probe               \* SpecPure: one function, its argument and its result

vars == <<version, audioContext, mediaStream, analyser, sampleRate, openContexts,
          liveStreams, samples, measureBtnDisabled, saveBtnDisabled, status,
          display, history, sess, nclicks, probe>>

-----------------------------------------------------------------------------
(* Bounds of the model *)

\* length of a sample buffer (analyser.fftSize is 2048 in the program)
BufLen == 3

\* click handler invocations in one run
MaxSessions == 2

\* longest Reading Set handed to the statistics in SpecPure
MaxReadings == 7

-----------------------------------------------------------------------------
(* Program constants *)

interval == 100
DefaultDurationMs == 3000
MinDurationMs == 500
MaxDurationMs == 10000
DefaultCalibration == 100
MinCalibration == 50
MaxCalibration == 200
DefaultDensity == 7850
LowHz == 20
HighHz == 10000
MinGood == 3
TrimPercent == 15
MaxHistory == 10

-----------------------------------------------------------------------------
(* Exact arithmetic *)

Abs(x) == IF x < 0 THEN -x ELSE x

RECURSIVE GCD(_, _)
GCD(a, b) == IF b = 0 THEN a ELSE GCD(b, a % b)

\* the rational n/d (d # 0) in lowest terms with a positive denominator
Rat(n, d) ==
    LET g == GCD(Abs(n), Abs(d))
        s == IF d < 0 THEN -1 ELSE 1
    IN  <<(s * n) \div g, (s * d) \div g>>

RInt(k) == <<k, 1>>
RAdd(a, b) == Rat(a[1] * b[2] + b[1] * a[2], a[2] * b[2])
RSub(a, b) == Rat(a[1] * b[2] - b[1] * a[2], a[2] * b[2])
RMul(a, b) == Rat(a[1] * b[1], a[2] * b[2])
RDivInt(a, k) == Rat(a[1], a[2] * k)
RLess(a, b) == a[1] * b[2] < b[1] * a[2]

\* the least k >= from with k*k >= v
RECURSIVE CeilRoot(_, _)
CeilRoot(v, from) ==
    IF from * from * v[2] >= v[1] THEN from ELSE CeilRoot(v, from + 1)

\* the s in lo..hi-1 with s*s <= 10000*v < (s+1)*(s+1), by bisection
RECURSIVE SqrtBetween(_, _, _)
SqrtBetween(v, lo, hi) ==
    IF hi - lo <= 1 THEN lo
    ELSE LET mid == (lo + hi) \div 2
         IN  IF mid * mid * v[2] <= 10000 * v[1]
             THEN SqrtBetween(v, mid, hi)
             ELSE SqrtBetween(v, lo, mid)

\* Math.sqrt of a non-negative rational, to the hundredth below: the result
\* counts hundredths
MathSqrt(v) == SqrtBetween(v, 0, 100 * CeilRoot(v, 0) + 1)

\* Number.prototype.toFixed(1) of a non-negative rational: tenths, ties upward
toFixed1(r) == (20 * r[1] + r[2]) \div (2 * r[2])

\* toFixed(1) of a count of hundredths
toFixed1OfHundredths(h) == (h + 5) \div 10

\* Numbers beyond 32 bits, for the tension (main.js:541): a natural is the
\* sequence of its digits in base 10000, least significant first, without a
\* leading zero digit; zero is the empty sequence
Base == 10000

RECURSIVE BigNorm(_)
BigNorm(s) ==
    IF s = <<>> THEN <<>>
    ELSE IF s[Len(s)] = 0 THEN BigNorm(SubSeq(s, 1, Len(s) - 1)) ELSE s

RECURSIVE Big(_)
Big(n) == IF n = 0 THEN <<>> ELSE <<n % Base>> \o Big(n \div Base)

RECURSIVE BigAddCarry(_, _, _)
BigAddCarry(a, b, carry) ==
    IF a = <<>> /\ b = <<>> THEN Big(carry)
    ELSE LET x == IF a = <<>> THEN 0 ELSE Head(a)
             y == IF b = <<>> THEN 0 ELSE Head(b)
             t == x + y + carry
         IN  <<t % Base>>
                 \o BigAddCarry(IF a = <<>> THEN a ELSE Tail(a),
                                IF b = <<>> THEN b ELSE Tail(b), t \div Base)

BigAdd(a, b) == BigAddCarry(a, b, 0)

\* a times one digit k
RECURSIVE BigScale(_, _, _)
BigScale(a, k, carry) ==
    IF a = <<>> THEN Big(carry)
    ELSE LET t == Head(a) * k + carry
         IN  <<t % Base>> \o BigScale(Tail(a), k, t \div Base)

BigShift(a) == IF a = <<>> THEN a ELSE <<0>> \o a

RECURSIVE BigMul(_, _)
BigMul(a, b) ==
    IF b = <<>> THEN <<>>
    ELSE BigAdd(BigNorm(BigScale(a, Head(b), 0)), BigShift(BigMul(a, Tail(b))))

RECURSIVE BigLessFrom(_, _, _)
BigLessFrom(a, b, i) ==
    IF i = 0 THEN FALSE
    ELSE IF a[i] # b[i] THEN a[i] < b[i] ELSE BigLessFrom(a, b, i - 1)

BigLess(a, b) ==
    IF Len(a) # Len(b) THEN Len(a) < Len(b) ELSE BigLessFrom(a, b, Len(a))

BigLeq(a, b) == ~BigLess(b, a)

\* A Number of the tension calculation: NaN, or (-1)^neg * pi^pi * num / den
QNaN == [nan |-> TRUE, neg |-> FALSE, pi |-> 0, num |-> <<>>, den |-> Big(1)]

\* the quotient n / d of two integers, d > 0
Q(n, d) ==
    [nan |-> FALSE, neg |-> n < 0, pi |-> 0, num |-> Big(Abs(n)), den |-> Big(d)]

\* Math.PI
MathPI == [nan |-> FALSE, neg |-> FALSE, pi |-> 1, num |-> Big(1), den |-> Big(1)]

QMul(x, y) ==
    IF x.nan \/ y.nan THEN QNaN
    ELSE [nan |-> FALSE, neg |-> x.neg # y.neg, pi |-> x.pi + y.pi,
          num |-> BigMul(x.num, y.num), den |-> BigMul(x.den, y.den)]

\* x / k for an integer k > 0
QDivInt(x, k) == QMul(x, Q(1, k))

\* x / y for a Number y # 0 without a factor pi
QDiv(x, y) ==
    QMul(x, [nan |-> y.nan, neg |-> y.neg, pi |-> 0, num |-> y.den, den |-> y.num])

\* x ** 2, Math.pow(x, 2)
QSquare(x) == QMul(x, x)

\* the same Number
QEq(x, y) ==
    /\ x.nan = y.nan
    /\ ~x.nan =>
        /\ BigMul(x.num, y.den) = BigMul(y.num, x.den)
        /\ x.num # <<>> => x.neg = y.neg /\ x.pi = y.pi

\* 3.141592653 < pi < 3.141592654
PiLow == <<2653, 4159, 31>>
PiHigh == <<2654, 4159, 31>>
PiDen == <<0, 0, 10>>

\* bounds on a Number x >= 0 as quotients of naturals: Lower(x) <= x <= Upper(x)
Lower(x) ==
    [num |-> IF x.pi = 1 THEN BigMul(x.num, PiLow) ELSE x.num,
     den |-> IF x.pi = 1 THEN BigMul(x.den, PiDen) ELSE x.den]

Upper(x) ==
    [num |-> IF x.pi = 1 THEN BigMul(x.num, PiHigh) ELSE x.num,
     den |-> IF x.pi = 1 THEN BigMul(x.den, PiDen) ELSE x.den]

\* x >= 0 written with the digits after the point that unit counts (10: one,
\* 100: two) is v / unit: (2v - 1) / (2 unit) <= x < (2v + 1) / (2 unit)
roundsTo(x, v, unit) ==
    /\ ~x.nan /\ ~x.neg /\ x.pi <= 1
    /\ BigLeq(BigMul(Big(2 * v - 1), Lower(x).den),
              BigMul(Big(2 * unit), Lower(x).num))
    /\ BigLess(BigMul(Big(2 * unit), Upper(x).num),
               BigMul(Big(2 * v + 1), Upper(x).den))

-----------------------------------------------------------------------------
(* getFrequency, main.js:474-483 *)

\* variant of isCrossing: a sample of exactly zero ends no crossing
isCrossingStrict(prev, cur) == (prev < 0 /\ cur > 0) \/ (prev > 0 /\ cur < 0)

\* the condition of the if inside the loop, for the pair (previous, current)
isCrossing(prev, cur) == (prev < 0 /\ cur >= 0) \/ (prev > 0 /\ cur <= 0)

\* the for loop from i (1-based position of the current sample) to the end
RECURSIVE countCrossings(_, _, _)
countCrossings(dataArray, i, crossings) ==
    IF i > Len(dataArray) THEN crossings
    ELSE countCrossings(dataArray, i + 1,
            IF isCrossing(dataArray[i - 1], dataArray[i]) THEN crossings + 1
            ELSE crossings)

getFrequency(dataArray, rate) ==
    Rat(countCrossings(dataArray, 2, 0) * rate, 2 * Len(dataArray))

-----------------------------------------------------------------------------
(* The reading filter, main.js:515 and main.js:520 *)

\* variant of inRange: the two limits are accepted
inRangeInclusive(f) ==
    f[1] # 0 /\ ~RLess(f, RInt(LowHz)) /\ ~RLess(RInt(HighHz), f)

inRange(f) == f[1] # 0 /\ RLess(RInt(LowHz), f) /\ RLess(f, RInt(HighHz))

filterGood(smp) == SelectSeq(smp, inRange)

-----------------------------------------------------------------------------
(* Input parsing and clamping, main.js:501-507 *)

NaN == <<>>
Num(x) == <<x>>
isNaN(v) == v = NaN

\* parseFloat(input.value) || dflt: NaN and 0 are falsy
orDefault(v, dflt) == IF isNaN(v) \/ v = Num(0) THEN dflt ELSE v[1]

Min(a, b) == IF a < b THEN a ELSE b
Max(a, b) == IF a > b THEN a ELSE b

\* main.js:501 (second version), main.js:184 (first version); milliseconds
durationOf(v, input) ==
    IF v = 2
    THEN Min(Max(orDefault(input, DefaultDurationMs), MinDurationMs), MaxDurationMs)
    ELSE orDefault(input, DefaultDurationMs)

\* main.js:503 (second version), main.js:185 (first version); hundredths
calibrationOf(v, input) ==
    IF v = 2
    THEN Min(Max(orDefault(input, DefaultCalibration), MinCalibration), MaxCalibration)
    ELSE orDefault(input, DefaultCalibration)

\* main.js:511
iterationsOf(durationMs) == durationMs \div interval

-----------------------------------------------------------------------------
(* Statistics of the good readings, main.js:533-538 *)

\* good.sort((a, b) => a - b): insertion of x into an ascending sequence
RECURSIVE insertSorted(_, _)
insertSorted(s, x) ==
    IF s = <<>> THEN <<x>>
    ELSE IF RLess(x, Head(s)) THEN <<x>> \o s
    ELSE <<Head(s)>> \o insertSorted(Tail(s), x)

RECURSIVE sortAscending(_)
sortAscending(s) ==
    IF s = <<>> THEN <<>> ELSE insertSorted(sortAscending(Tail(s)), Head(s))

\* main.js:534
trimOf(n) == (n * TrimPercent) \div 100

\* variant of sliceTrim: only the smallest readings are dropped
sliceBottomOnly(sorted, trim) == SubSeq(sorted, trim + 1, Len(sorted))

\* main.js:535: good.slice(trim, good.length - trim || undefined)
sliceTrim(sorted, trim) ==
    LET end == IF Len(sorted) - trim = 0 THEN Len(sorted) ELSE Len(sorted) - trim
    IN  SubSeq(sorted, trim + 1, end)

\* trimmed.reduce((a, b) => a + b, 0)
RECURSIVE reduceSum(_, _)
reduceSum(s, acc) ==
    IF s = <<>> THEN acc ELSE reduceSum(Tail(s), RAdd(acc, Head(s)))

\* trimmed.reduce((a, x) => a + (x - freq) ** 2, 0)
RECURSIVE reduceSquares(_, _, _)
reduceSquares(s, freq, acc) ==
    IF s = <<>> THEN acc
    ELSE reduceSquares(Tail(s), freq,
            RAdd(acc, RMul(RSub(Head(s), freq), RSub(Head(s), freq))))

\* main.js:535
trimmedOf(good) == sliceTrim(sortAscending(good), trimOf(Len(good)))

\* main.js:536
meanOf(trimmed) == RDivInt(reduceSum(trimmed, RInt(0)), Len(trimmed))

\* variant of varianceOf: the sample variance, divided by count - 1
varianceSample(trimmed, freq) ==
    RDivInt(reduceSquares(trimmed, freq, RInt(0)), Len(trimmed) - 1)

\* main.js:537
varianceOf(trimmed, freq) ==
    RDivInt(reduceSquares(trimmed, freq, RInt(0)), Len(trimmed))

\* main.js:533-538, for a good of at least MinGood readings
statistics(good) ==
    LET trimmed == trimmedOf(good)
        freq == meanOf(trimmed)
        variance == varianceOf(trimmed, freq)
    IN  [n |-> Len(good), trimmed |-> trimmed, freq |-> freq,
         variance |-> variance, stdev |-> MathSqrt(variance)]

-----------------------------------------------------------------------------
(* Inputs of the environment *)

\* sampling rates of the capture device, scaled to the buffer length as
\* 48000 Hz is to 2048 samples: one crossing is worth 20 Hz or 10000 Hz
SampleRates == {120, 60000}

\* one buffer per number of crossings: c sign changes, then a held sample
Wave(c) ==
    [i \in 1..BufLen |->
        LET k == IF i <= c + 1 THEN i ELSE c + 1
        IN  IF k % 2 = 1 THEN 1 ELSE -1]

Silence == [i \in 1..BufLen |-> 0]

\* what analyser.getFloatTimeDomainData delivers during a session: silence, a
\* steady offset, half a cycle, a full cycle
MicBuffers == {Silence, Wave(0), Wave(1), Wave(2)}

\* every buffer over three amplitudes, for the estimator on its own
AllBuffers == [1..BufLen -> {-1, 0, 1}]

\* the duration field, in milliseconds
DurationInputs == {Num(200), Num(600)}

\* the calibration field, in hundredths
CalibrationInputs == {Num(100)}

\* materialSelect.value
MaterialInputs == {"steel"}

\* the length field, in millimetres
LengthInputs == {NaN, Num(0), Num(300)}

\* the diameter field, in hundredths of a millimetre
DiameterInputs == {Num(200)}

FormInputs ==
    [duration : DurationInputs, calibration : CalibrationInputs,
     material : MaterialInputs, length : LengthInputs, diameter : DiameterInputs]

-----------------------------------------------------------------------------
(* The page *)

\* main.js:346-350
MATERIAL_DENSITY(material) ==
    CASE material = "steel" -> Num(7858)
      [] material = "titanium" -> Num(4500)
      [] material = "aluminium" -> Num(2700)
      [] OTHER -> NaN

\* main.js:32-43 and 61-70: the option's value is the density of the material
materials(material) ==
    CASE material = "steel" -> Num(7850)
      [] material = "titanium" -> Num(4500)
      [] material = "aluminium" -> Num(2700)
      [] OTHER -> NaN

\* main.js:505 (second version), main.js:186 (first version)
materialDensityOf(v, material) ==
    IF v = 2 THEN orDefault(MATERIAL_DENSITY(material), DefaultDensity)
    ELSE orDefault(materials(material), DefaultDensity)

truthy(x) == x = "object"

\* a result field showing '--' (second version) or its initial text
Dash == [shown |-> FALSE, value |-> 0]
Shown(x) == [shown |-> TRUE, value |-> x]

\* main.js:541: the operands of tensionN; the product is NaN when an operand is
NoTension ==
    [nan |-> FALSE, density |-> 0, diameter |-> 0, length |-> 0,
     freq |-> RInt(0), calibration |-> 0]

tensionOf(density, diameter, length, freq, calibration) ==
    IF isNaN(diameter) \/ isNaN(length)
    THEN [NoTension EXCEPT !.nan = TRUE]
    ELSE [nan |-> FALSE, density |-> density, diameter |-> diameter[1],
          length |-> length[1], freq |-> freq, calibration |-> calibration]

\* main.js:506: length = parseFloat(length field) / 1000, the field in mm
lengthOf(length) == IF isNaN(length) THEN QNaN ELSE Q(length[1], 1000)

\* main.js:507: diameter = parseFloat(diameter field) / 1000; the model counts
\* the field in hundredths of a millimetre
diameterOf(diameter) ==
    IF isNaN(diameter) THEN QNaN ELSE QDivInt(Q(diameter[1], 100), 1000)

\* Math.PI * diameter ** 2
areaOfDiameter(diameter) == QMul(MathPI, QSquare(diameter))

\* main.js:508: area = Math.PI * (diameter / 2) ** 2
area(diameter) == QMul(MathPI, QSquare(QDivInt(diameter, 2)))

\* main.js:541: tensionN of the operands t, the calibration in hundredths
tensionN(t) ==
    IF t.nan THEN QNaN
    ELSE QMul(QMul(QMul(Q(t.density, 1), area(diameterOf(Num(t.diameter)))),
                   QSquare(QMul(QMul(Q(2, 1), lengthOf(Num(t.length))),
                                Q(t.freq[1], t.freq[2])))),
              Q(t.calibration, 100))

\* main.js:542: tensionKgf = tensionN / 9.80665
tensionKgf(newtons) == QDiv(newtons, Q(980665, 100000))

\* the result fields before the first measurement
InitialDisplay ==
    [tension |-> [shown |-> FALSE, value |-> NoTension], freq |-> Dash,
     samples |-> Dash, stdev |-> Dash]

\* main.js:490-493: '-- kgf', '-- Hz', '0', '--'
BlankDisplay == [InitialDisplay EXCEPT !.samples = Shown(0)]

\* the locals of one invocation of the click handler; pc is "idle" before the
\* click, "mic" at await initMic(), "sleep" at the await of the loop, "done"
\* once the handler has ended
IdleSession ==
    [pc |-> "idle", form |-> CHOOSE x \in FormInputs : TRUE, duration |-> 0,
     iterations |-> 0, i |-> 0, calls |-> 0, yields |-> 0,
     called |-> FALSE, f |-> RInt(0), outcome |-> "none", good |-> 0,
     freq |-> RInt(0), stdev |-> 0, tension |-> NoTension]

\* by the next click the locals of an invocation that has ended are gone
returned(r) ==
    IF r.pc = "done" THEN [IdleSession EXCEPT !.pc = "gone", !.outcome = r.outcome]
    ELSE r

\* the program state as one record
St ==
    [audioContext |-> audioContext, mediaStream |-> mediaStream,
     analyser |-> analyser, sampleRate |-> sampleRate,
     openContexts |-> openContexts, liveStreams |-> liveStreams,
     samples |-> samples, measureBtnDisabled |-> measureBtnDisabled,
     saveBtnDisabled |-> saveBtnDisabled, status |-> status,
     display |-> display, history |-> history, sess |-> sess,
     nclicks |-> nclicks]

Commit(g) ==
    /\ audioContext' = g.audioContext
    /\ mediaStream' = g.mediaStream
    /\ analyser' = g.analyser
    /\ sampleRate' = g.sampleRate
    /\ openContexts' = g.openContexts
    /\ liveStreams' = g.liveStreams
    /\ samples' = g.samples
    /\ measureBtnDisabled' = g.measureBtnDisabled
    /\ saveBtnDisabled' = g.saveBtnDisabled
    /\ status' = g.status
    /\ display' = g.display
    /\ history' = g.history
    /\ sess' = g.sess
    /\ nclicks' = g.nclicks
    /\ UNCHANGED <<version, probe>>

-----------------------------------------------------------------------------
(* The click handler of measureBtn, main.js:485-579 (first version 179-240), *)
(* as functions from the program state g to the program state after.        *)

\* main.js:523-527: the release on the no-signal path
releaseNoSignal(g) ==
    [g EXCEPT !.liveStreams = IF truthy(g.mediaStream) THEN @ - 1 ELSE @,
              !.openContexts = IF truthy(g.audioContext) THEN @ - 1 ELSE @,
              !.audioContext = "null",
              !.mediaStream = "null",
              !.analyser = "null"]

\* main.js:550-556: the release after a result
releaseResult(g) ==
    [g EXCEPT !.liveStreams = IF truthy(g.mediaStream) THEN @ - 1 ELSE @,
              !.openContexts = IF truthy(g.audioContext) THEN @ - 1 ELSE @,
              !.audioContext = IF truthy(g.audioContext) THEN "null" ELSE @,
              !.mediaStream = "null",
              !.analyser = "null"]

\* variant of tooFew: three readings are still too few
tooFewOrEqual(good) == Len(good) <= MinGood

\* main.js:521: the no-signal test on the filtered readings
tooFew(good) == Len(good) < MinGood

\* main.js:570-572
\* history.shift(): the first entry removed instead of the last
shiftHistory(h) == IF Len(h) > MaxHistory THEN Tail(h) ELSE h

\* main.js:570-572: history.pop() once the history has more than 10 entries
capHistory(h) == IF Len(h) > MaxHistory THEN SubSeq(h, 1, Len(h) - 1) ELSE h

\* main.js:521-531
noSignal(g, s) ==
    LET g1 == releaseNoSignal(g)
    IN  [g1 EXCEPT !.status = "ready",
                   !.measureBtnDisabled = IF version = 2 THEN FALSE ELSE @,
                   !.sess[s].pc = "done",
                   !.sess[s].outcome = "noSignal"]

\* main.js:533-578
result(g, s, good) ==
    LET r == g.sess[s]
        st == statistics(good)
        density == materialDensityOf(version, r.form.material)
        calibration == calibrationOf(version, r.form.calibration)
        tension == tensionOf(density, r.form.diameter, r.form.length, st.freq,
                             calibration)
        shown == [tension |-> Shown(tension),
                  freq |-> Shown(toFixed1(st.freq)),
                  samples |-> Shown(Len(good)),
                  stdev |-> Shown(toFixed1OfHundredths(st.stdev))]
        entry == [freq |-> shown.freq.value, tension |-> tension,
                  material |-> r.form.material, length |-> r.form.length,
                  diameter |-> r.form.diameter, timestamp |-> s]
        g1 == releaseResult([g EXCEPT !.display = shown])
    IN  [g1 EXCEPT !.status = "ready",
                   !.saveBtnDisabled = IF version = 1 THEN FALSE ELSE @,
                   !.history = IF version = 2 THEN capHistory(<<entry>> \o @) ELSE @,
                   !.measureBtnDisabled = IF version = 2 THEN FALSE ELSE @,
                   !.sess[s].pc = "done",
                   !.sess[s].outcome = "result",
                   !.sess[s].freq = st.freq,
                   !.sess[s].stdev = st.stdev,
                   !.sess[s].tension = tension]

\* main.js:520-579: what follows the sampling loop
finish(g, s) ==
    LET good == filterGood(g.samples)
        g1 == [g EXCEPT !.sess[s].good = Len(good)]
    IN  IF tooFew(good) THEN noSignal(g1, s) ELSE result(g1, s, good)

\* main.js:514-516: one pass of the loop body, up to its await.  getFrequency
\* throws a TypeError on a null or undefined analyser or audioContext.
estimate(g, s, buf) ==
    IF ~truthy(g.analyser) \/ ~truthy(g.audioContext)
    THEN [g EXCEPT !.sess[s].pc = "done", !.sess[s].outcome = "error"]
    ELSE LET f == getFrequency(buf, g.sampleRate)
         IN  [g EXCEPT !.samples = IF inRange(f) THEN Append(@, f) ELSE @,
                       !.sess[s].f = f,
                       !.sess[s].called = TRUE,
                       !.sess[s].calls = @ + 1,
                       !.sess[s].yields = @ + 1,
                       !.sess[s].pc = "sleep"]

\* variant of loopContinues: the loop stops once it holds enough readings
loopUntilEnough(i, iterations, smp) == i < iterations /\ Len(smp) < MinGood

\* main.js:513: the loop condition
loopContinues(i, iterations, smp) == i < iterations

\* main.js:513-579 from the loop test on
loop(g, s, buf) ==
    IF loopContinues(g.sess[s].i, g.sess[s].iterations, g.samples)
    THEN estimate(g, s, buf)
    ELSE finish(g, s)

\* main.js:496-511: what follows await initMic()
begin(g, s, form, buf) ==
    LET duration == durationOf(version, form.duration)
        g1 == [g EXCEPT !.samples = <<>>,
                        !.sess[s].form = form,
                        !.sess[s].duration = duration,
                        !.sess[s].iterations = iterationsOf(duration),
                        !.sess[s].i = 0]
    IN  loop(g1, s, buf)

\* main.js:485-495 and initMic, main.js:463-466, up to the first await that
\* suspends the handler
click(g, s, rate, form, buf) ==
    LET g1 == [g EXCEPT !.nclicks = @ + 1,
                        !.sess = [t \in DOMAIN @ |-> returned(@[t])],
                        !.measureBtnDisabled = IF version = 2 THEN TRUE ELSE @,
                        !.status = "recording",
                        !.display = IF version = 2 THEN BlankDisplay ELSE @]
    IN  IF ~truthy(g1.audioContext)
        THEN [g1 EXCEPT !.audioContext = "object",
                        !.sampleRate = rate,
                        !.openContexts = @ + 1,
                        !.sess[s].pc = "mic"]
        ELSE begin(g1, s, form, buf)

\* main.js:466-471: getUserMedia resolved with a stream, then main.js:496 on
micGranted(g, s, form, buf) ==
    LET g1 == [g EXCEPT !.mediaStream = "object", !.liveStreams = @ + 1]
    IN  IF ~truthy(g1.audioContext)
        THEN [g1 EXCEPT !.sess[s].pc = "done", !.sess[s].outcome = "error"]
        ELSE begin([g1 EXCEPT !.analyser = "object"], s, form, buf)

\* main.js:466: getUserMedia rejected; initMic and the handler end by the throw
micRejected(g, s) ==
    [g EXCEPT !.sess[s].pc = "done", !.sess[s].outcome = "error"]

\* main.js:516-517 and 513: the timer fired, i++, the loop test
tick(g, s, buf) == loop([g EXCEPT !.sess[s].i = @ + 1], s, buf)

-----------------------------------------------------------------------------
(* Actions *)

Sessions == 1..MaxSessions

NoProbe == [fn |-> "none", arg |-> <<>>, out |-> <<>>, done |-> FALSE]

\* a click on the measure button; a disabled button dispatches no click
ClickOn(rates, forms, bufs) ==
    /\ ~measureBtnDisabled
    /\ nclicks < MaxSessions
    /\ \E rate \in rates, form \in forms, buf \in bufs :
          Commit(click(St, nclicks + 1, rate, form, buf))

Click == ClickOn(SampleRates, FormInputs, MicBuffers)

MicGrantedOn(forms, bufs) ==
    \E s \in Sessions :
        /\ sess[s].pc = "mic"
        /\ \E form \in forms, buf \in bufs :
              Commit(micGranted(St, s, form, buf))

MicGranted == MicGrantedOn(FormInputs, MicBuffers)

MicRejected ==
    \E s \in Sessions :
        /\ sess[s].pc = "mic"
        /\ Commit(micRejected(St, s))

TickOn(bufs) ==
    \E s \in Sessions :
        /\ sess[s].pc = "sleep"
        /\ \E buf \in bufs : Commit(tick(St, s, buf))

Tick == TickOn(MicBuffers)

\* main.js:606-610: the click handler of the delete button of row i, the rows
\* being those of the history (renderTable ends every handler that changes it)
deleteRow(g, i) ==
    [g EXCEPT !.history = SubSeq(@, 1, i) \o SubSeq(@, i + 2, Len(@))]

\* main.js:638-642: the click handler of clearBtn
clear(g) == [g EXCEPT !.history = <<>>]

DeleteRow ==
    /\ version = 2
    /\ \E i \in 0..(Len(history) - 1) : Commit(deleteRow(St, i))

Clear ==
    /\ version = 2
    /\ Commit(clear(St))

\* the page once the script has run, with the history stored by earlier visits
InitStored(v, stored) ==
    /\ version = v
    /\ audioContext = "undefined"
    /\ mediaStream = "undefined"
    /\ analyser = "undefined"
    /\ sampleRate = 0
    /\ openContexts = 0
    /\ liveStreams = 0
    /\ samples = <<>>
    /\ measureBtnDisabled = FALSE
    /\ saveBtnDisabled = TRUE
    /\ status = "ready"
    /\ display = InitialDisplay
    /\ history = stored
    /\ sess = [s \in Sessions |-> IdleSession]
    /\ nclicks = 0

InitPage(v) == InitStored(v, <<>>)

Init == InitPage(2) /\ probe = NoProbe

InitV1 == InitPage(1) /\ probe = NoProbe

Next == Click \/ MicGranted \/ MicRejected \/ Tick

Spec == Init /\ [][Next]_vars

SpecV1 == InitV1 /\ [][Next]_vars

\* The history: measurements on one form, with the delete buttons and clearBtn

\* the entry of the k-th measurement before this visit
storedEntry(k) ==
    [freq |-> 400, tension |-> NoTension, material |-> "steel",
     length |-> Num(300), diameter |-> Num(200), timestamp |-> 1 - k]

\* main.js:368: what an earlier visit has left in localStorage, newest first
StoredHistories ==
    {[k \in 1..n |-> storedEntry(k)] : n \in 0..MaxHistory}

HistoryRates == {120}

HistoryForms ==
    {form \in FormInputs : form.duration = Num(200) /\ form.length = Num(300)}

HistoryBuffers == {Silence, Wave(2)}

InitHistory == \E stored \in StoredHistories : InitStored(2, stored) /\ probe = NoProbe

NextHistory ==
    \/ ClickOn(HistoryRates, HistoryForms, HistoryBuffers)
    \/ MicGrantedOn(HistoryForms, HistoryBuffers)
    \/ MicRejected
    \/ TickOn(HistoryBuffers)
    \/ DeleteRow
    \/ Clear

SpecHistory == InitHistory /\ [][NextHistory]_vars

-----------------------------------------------------------------------------
(* The pure functions of the handler on their own: SpecPure draws one       *)
(* argument and applies the function to it.                                 *)

\* the duration field, in milliseconds
ClampDurationInputs ==
    {NaN} \cup {Num(x) : x \in {-1000, 0, 100, 499, 500, 501, 3000, 9999, 10000,
                               10001, 12000}}

\* the calibration field, in hundredths
ClampCalibrationInputs ==
    {NaN} \cup {Num(x) : x \in {-100, 0, 49, 50, 51, 100, 199, 200, 201, 300}}

\* readings in Hz: 45/2, 30, 60
ReadingValues == {<<45, 2>>, RInt(30), RInt(60)}

\* the ten readings 100..109 of the spec's example, out of order
ExampleReadings ==
    <<RInt(104), RInt(109), RInt(100), RInt(107), RInt(102), RInt(105),
      RInt(101), RInt(108), RInt(103), RInt(106)>>

\* Reading Sets that pass the no-signal test
ReadingSets ==
    UNION {[1..n -> ReadingValues] : n \in MinGood..MaxReadings}
        \cup {ExampleReadings}

\* operands of the tension: density in kg/m3, diameter field in hundredths of
\* mm, length field in mm, mean frequency in Hz, calibration in hundredths
TensionInputs ==
    {<<density, diameter, length, freq, calibration>> :
        density \in {2700, 7850, 7858},
        diameter \in {Num(180), Num(200)},
        length \in {NaN, Num(0), Num(-300), Num(300)},
        freq \in {<<45, 2>>, RInt(30), RInt(400)},
        calibration \in {MinCalibration, DefaultCalibration, MaxCalibration}}

Probes ==
    {[fn |-> "getFrequency", arg |-> <<buf, rate>>, out |-> <<>>, done |-> FALSE] :
        buf \in AllBuffers, rate \in SampleRates}
    \cup {[fn |-> "duration", arg |-> x, out |-> <<>>, done |-> FALSE] :
            x \in ClampDurationInputs}
    \cup {[fn |-> "calibration", arg |-> x, out |-> <<>>, done |-> FALSE] :
            x \in ClampCalibrationInputs}
    \cup {[fn |-> "statistics", arg |-> good, out |-> <<>>, done |-> FALSE] :
            good \in ReadingSets}
    \cup {[fn |-> "tension", arg |-> x, out |-> <<>>, done |-> FALSE] :
            x \in TensionInputs}

Apply(fn, out) ==
    /\ probe.fn = fn
    /\ ~probe.done
    /\ probe' = [probe EXCEPT !.out = out, !.done = TRUE]
    /\ UNCHANGED <<version, audioContext, mediaStream, analyser, sampleRate,
                   openContexts, liveStreams, samples, measureBtnDisabled,
                   saveBtnDisabled, status, display, history, sess, nclicks>>

ApplyGetFrequency ==
    Apply("getFrequency", getFrequency(probe.arg[1], probe.arg[2]))

ApplyDuration ==
    Apply("duration",
          [duration |-> durationOf(version, probe.arg),
           iterations |-> iterationsOf(durationOf(version, probe.arg))])

ApplyCalibration ==
    Apply("calibration", [calibration |-> calibrationOf(version, probe.arg)])

ApplyStatistics == Apply("statistics", statistics(probe.arg))

ApplyTension ==
    LET newtons ==
            tensionN(tensionOf(probe.arg[1], probe.arg[2], probe.arg[3],
                               probe.arg[4], probe.arg[5]))
    IN  Apply("tension", [tensionN |-> newtons, tensionKgf |-> tensionKgf(newtons)])

InitPure == InitPage(2) /\ probe \in Probes

NextPure ==
    \/ ApplyGetFrequency
    \/ ApplyDuration
    \/ ApplyCalibration
    \/ ApplyStatistics
    \/ ApplyTension

SpecPure == InitPure /\ [][NextPure]_vars

-----------------------------------------------------------------------------
(* Claims on the frequency estimator and the statistics, under SpecPure *)

C8_crossings(buf) ==
    Cardinality({i \in 2..Len(buf) :
        \/ buf[i - 1] < 0 /\ buf[i] >= 0
        \/ buf[i - 1] > 0 /\ buf[i] <= 0})

C8_oneSign(buf) ==
    \/ \A i \in DOMAIN buf : buf[i] = 0
    \/ \A i \in DOMAIN buf : buf[i] > 0
    \/ \A i \in DOMAIN buf : buf[i] < 0

\* C8: for a buffer of length L at rate R, getFrequency returns C*R/(2*L), C
\* the number of adjacent pairs (previous, current) with previous < 0 and
\* current >= 0, or previous > 0 and current <= 0; a buffer of zeros or of one
\* sign yields 0, and exactly 2k such pairs yield k*R/L.
C8_ZeroCrossingFrequency ==
    (probe.fn = "getFrequency" /\ probe.done) =>
        LET buf == probe.arg[1]
            R == probe.arg[2]
            L == Len(buf)
            C == C8_crossings(buf)
            f == probe.out
        IN  /\ f[2] > 0
            /\ f[1] * 2 * L = C * R * f[2]
            /\ (C = 0 \/ C8_oneSign(buf)) => f[1] = 0
            /\ \A k \in 0..L : C = 2 * k => f[1] * L = k * R * f[2]

\* a buffer that touches zero, with two crossings: the estimate is R/L
C8_Witness ==
    /\ probe.fn = "getFrequency"
    /\ probe.done
    /\ C8_crossings(probe.arg[1]) = 2
    /\ \E i \in DOMAIN probe.arg[1] : probe.arg[1][i] = 0
    /\ probe.out[1] * Len(probe.arg[1]) = probe.arg[2] * probe.out[2]

\* the k-th smallest reading of good, by rank
C9_kth(good, k) ==
    CHOOSE x \in {good[j] : j \in DOMAIN good} :
        /\ Cardinality({j \in DOMAIN good : RLess(good[j], x)}) < k
        /\ k <= Cardinality({j \in DOMAIN good : ~RLess(x, good[j])})

\* floor(N * 0.15)
C9_trim(N) == CHOOSE t \in 0..N : 100 * t <= 15 * N /\ 15 * N < 100 * (t + 1)

\* the readings at positions trim .. N-trim-1 of the ascending sort
C9_expected(good) ==
    [k \in 1..(Len(good) - 2 * C9_trim(Len(good))) |->
        C9_kth(good, C9_trim(Len(good)) + k)]

\* C9: for a Reading Set of N >= 3 readings, with trim = floor(N*0.15), the
\* trimmed subset is the readings at positions trim .. N-trim-1 of the ascending
\* sort: N - 2*trim readings, never none; for 100..109 it is 101..108.
C9_TrimmedSubset ==
    (probe.fn = "statistics" /\ probe.done) =>
        LET good == probe.arg
            trimmed == probe.out.trimmed
        IN  /\ Len(trimmed) = Len(good) - 2 * C9_trim(Len(good))
            /\ Len(trimmed) >= 1
            /\ trimmed = C9_expected(good)
            /\ good = ExampleReadings => trimmed = [k \in 1..8 |-> RInt(100 + k)]

\* the spec's example: of the ten readings 100..109 the eight 101..108 remain
C9_Witness ==
    /\ probe.fn = "statistics"
    /\ probe.done
    /\ probe.arg = ExampleReadings
    /\ Len(probe.out.trimmed) = 8
    /\ probe.out.trimmed[1] = RInt(101)
    /\ probe.out.trimmed[8] = RInt(108)

RECURSIVE C10_sum(_, _)
C10_sum(T, k) == IF k = 0 THEN RInt(0) ELSE RAdd(C10_sum(T, k - 1), T[k])

RECURSIVE C10_sumSquares(_, _, _)
C10_sumSquares(T, m, k) ==
    IF k = 0 THEN RInt(0)
    ELSE RAdd(C10_sumSquares(T, m, k - 1), RMul(RSub(T[k], m), RSub(T[k], m)))

\* C10: the reported frequency is the arithmetic mean of the trimmed subset and
\* the reported deviation is the square root of its population variance (the
\* squared differences from that mean, summed and divided by the count).
C10_MeanAndDeviation ==
    (probe.fn = "statistics" /\ probe.done) =>
        LET T == C9_expected(probe.arg)
            n == Len(T)
            freq == probe.out.freq
            variance == probe.out.variance
            stdev == probe.out.stdev
        IN  /\ RMul(freq, RInt(n)) = C10_sum(T, n)
            /\ RMul(variance, RInt(n)) = C10_sumSquares(T, freq, n)
            /\ stdev >= 0
            /\ stdev * stdev * variance[2] <= 10000 * variance[1]
            /\ 10000 * variance[1] < (stdev + 1) * (stdev + 1) * variance[2]

\* a Reading Set whose trimming changes the mean, with a deviation above zero
C10_Witness ==
    /\ probe.fn = "statistics"
    /\ probe.done
    /\ Len(probe.out.trimmed) < Len(probe.arg)
    /\ probe.out.stdev > 0
    /\ RMul(probe.out.freq, RInt(Len(probe.arg)))
          # C10_sum(probe.arg, Len(probe.arg))

\* C7: the duration and the calibration a session uses are the inputs clamped
\* into [0.5, 10] and [0.5, 2.0]; none reaches the iteration count unclamped.
C7_ClampedInputs ==
    probe.done =>
        /\ (probe.fn = "duration" /\ ~isNaN(probe.arg)) =>
              LET x == probe.arg[1]
                  c == IF x < 500 THEN 500 ELSE IF x > 10000 THEN 10000 ELSE x
              IN  /\ probe.out.duration = c
                  /\ probe.out.iterations * 100 <= c
                  /\ c < (probe.out.iterations + 1) * 100
        /\ (probe.fn = "calibration" /\ ~isNaN(probe.arg)) =>
              LET x == probe.arg[1]
              IN  probe.out.calibration =
                      IF x < 50 THEN 50 ELSE IF x > 200 THEN 200 ELSE x

-----------------------------------------------------------------------------
(* Claims on the measurement session *)

Released ==
    /\ audioContext = "null"
    /\ mediaStream = "null"
    /\ analyser = "null"
    /\ openContexts = 0
    /\ liveStreams = 0

\* C1: on every exit path of a session (a result, fewer than 3 readings, or an
\* error such as the microphone request being rejected) every track is stopped,
\* the audio context is closed and audioContext, mediaStream and analyser are
\* null.
C1_ReleasedOnEveryExit ==
    \A s \in Sessions : sess[s].pc = "done" => Released

InProgress(s) == sess[s].pc \in {"mic", "sleep"}

\* C2: at most one measurement session is in progress at any time.
C2_OneSessionAtATime ==
    Cardinality({s \in Sessions : InProgress(s)}) <= 1

Strictly(lo, x, hi) == x[2] > 0 /\ lo * x[2] < x[1] /\ x[1] < hi * x[2]

\* the session ended after its sampling loop, and no other has started since
Decided(s) == sess[s].pc = "done" /\ sess[s].outcome # "error"

\* C3: a session that collected fewer than 3 valid readings ends with the
\* no-signal outcome, shows no frequency and no tension and adds no history
\* entry; a session with 3 or more ends with a result and a tension.
C3_NoSignalThreshold ==
    \A s \in Sessions :
        Decided(s) =>
            IF Len(samples) < 3
            THEN /\ sess[s].outcome = "noSignal"
                 /\ display = BlankDisplay
                 /\ ~display.freq.shown
                 /\ ~display.tension.shown
                 /\ \A k \in DOMAIN history : history[k].timestamp # s
            ELSE /\ sess[s].outcome = "result"
                 /\ display.tension.shown
                 /\ display.tension.value = sess[s].tension
                 /\ history # <<>>
                 /\ history[1].timestamp = s

\* a session that ends with no signal on 2 readings, after one with a result
C3_Witness ==
    /\ history # <<>>
    /\ history[1].timestamp = 1
    /\ sess[2].pc = "done"
    /\ sess[2].outcome = "noSignal"
    /\ Len(samples) = 2

InvalidNumber(v) == isNaN(v) \/ v[1] <= 0

InvalidConfiguration(form) ==
    \/ InvalidNumber(form.length)
    \/ InvalidNumber(form.diameter)
    \/ materialDensityOf(version, form.material) <= 0

\* C4: a session started with a non-finite or non-positive length, diameter or
\* density fails before the sampling loop: the estimator is never invoked for
\* it and no tension is produced or displayed.
C4_InvalidConfigurationFailsFast ==
    \A s \in Sessions :
        (sess[s].pc \in {"sleep", "done"} /\ InvalidConfiguration(sess[s].form)) =>
            /\ ~sess[s].called
            /\ sess[s].outcome # "result"

\* the estimate of this step, when session s made one
Estimated(s) == sess'[s].calls = sess[s].calls + 1

\* C5 (state part): every value of the Reading Set is strictly between 20 and
\* 10000.
C5_AllInRange ==
    \A k \in DOMAIN samples : Strictly(20, samples[k], 10000)

\* C5 (step part): an estimate strictly between 20 and 10000 is appended; any
\* other (0, 20, 10000, ...) is discarded, and discarding it changes nothing
\* else of the session.
C5_Step ==
    \A s \in Sessions :
        Estimated(s) =>
            LET f == sess'[s].f
                before == IF sess[s].pc = "sleep" THEN samples ELSE <<>>
            IN  IF Strictly(20, f, 10000)
                THEN samples' = Append(before, f)
                ELSE /\ samples' = before
                     /\ sess[s].pc = "sleep" =>
                           /\ sess'[s] = [sess[s] EXCEPT !.f = f, !.called = TRUE,
                                              !.i = @ + 1, !.calls = @ + 1,
                                              !.yields = @ + 1]
                           /\ UNCHANGED <<audioContext, mediaStream, analyser,
                                          sampleRate, openContexts, liveStreams,
                                          measureBtnDisabled, status, display,
                                          history>>

\* C5: at every point of a session every value in the Reading Set is strictly
\* between 20 and 10000; an estimate outside that open interval is discarded
\* without being appended, and discarding it changes nothing else.
C5_ReadingsInRange == [](C5_AllInRange) /\ [][C5_Step]_vars

\* the third estimate of a session, exactly 20 Hz, was discarded; the Reading
\* Set holds the one reading kept before
C5_Witness ==
    \E s \in Sessions :
        /\ sess[s].pc = "sleep"
        /\ sess[s].f = RInt(20)
        /\ sess[s].calls = 3
        /\ Len(samples) = 1

\* C6: a session that reaches the sampling loop invokes the estimator exactly
\* iterations = floor(duration*1000/100) times, with one yield after each
\* invocation, before its outcome is decided; the Reading Set never holds more
\* than iterations readings.
C6_FullLoop ==
    \A s \in Sessions :
        /\ sess[s].pc = "sleep" =>
              /\ sess[s].outcome = "none"
              /\ sess[s].calls = sess[s].i + 1
              /\ sess[s].yields = sess[s].calls
              /\ sess[s].calls <= sess[s].iterations
              /\ Len(samples) <= sess[s].calls
        /\ Decided(s) =>
              /\ sess[s].iterations * 100 <= sess[s].duration
              /\ sess[s].duration < (sess[s].iterations + 1) * 100
              /\ sess[s].calls = sess[s].iterations
              /\ sess[s].yields = sess[s].iterations
              /\ Len(samples) <= sess[s].iterations

\* a session of 6 iterations that had 3 readings after 3 estimates and ended
\* with a result after all 6
C6_Witness ==
    \E s \in Sessions :
        /\ sess[s].pc = "done"
        /\ sess[s].outcome = "result"
        /\ sess[s].iterations = 6
        /\ sess[s].calls = 6
        /\ Len(samples) = 3
        /\ sess[s].f[1] = 0


-----------------------------------------------------------------------------
(* Claim on the tension, under SpecPure *)

TensionApplied == probe.fn = "tension" /\ probe.done

RECURSIVE BigProduct(_)
BigProduct(factors) ==
    IF factors = <<>> THEN Big(1)
    ELSE BigMul(Big(Head(factors)), BigProduct(Tail(factors)))

\* density * pi * (diameter/2)^2 * (2*length*frequency)^2 * calibration in one
\* quotient, with the diameter in hundredths of mm (d / 10^5 m), the length in
\* mm (l / 10^3 m) and the calibration in hundredths:
\* pi * density * d^2 * l^2 * fn^2 * calibration / (10^18 * fd^2)
C11_Newtons(x) ==
    IF isNaN(x[2]) \/ isNaN(x[3]) THEN QNaN
    ELSE [nan |-> FALSE, neg |-> FALSE, pi |-> 1,
          num |-> BigProduct(<<x[1], x[2][1] * x[2][1], x[3][1] * x[3][1],
                               x[4][1] * x[4][1], x[5]>>),
          den |-> BigMul(<<0, 0, 0, 0, 100>>, Big(x[4][2] * x[4][2]))]

\* density 7850, diameter 2 mm, length 0.3 m, frequency 400 Hz, calibration 1.0
C11_Example == <<7850, Num(200), Num(300), RInt(400), 100>>

C11_Formula ==
    TensionApplied =>
        /\ QEq(probe.out.tensionN, C11_Newtons(probe.arg))
        /\ QEq(QMul(probe.out.tensionKgf, Q(980665, 100000)), probe.out.tensionN)

\* C11 as stated: the tension in newtons is density * (pi*(diameter/2)^2) *
\* (2*length*frequency)^2 * calibration with length and diameter in metres, the
\* kgf value is that tension divided by 9.80665, and the example gives about
\* 1421.6 N and 144.97 kgf
C11_AsStated ==
    /\ C11_Formula
    /\ TensionApplied /\ probe.arg = C11_Example =>
        /\ roundsTo(probe.out.tensionN, 14216, 10)
        /\ roundsTo(probe.out.tensionKgf, 14497, 100)

\* C11, amended: the tension in newtons is density * (pi*(diameter/2)^2) *
\* (2*length*frequency)^2 * calibration with length and diameter in metres, the
\* kgf value is that tension divided by 9.80665, and for density 7850, diameter
\* 2 mm, length 0.3 m, frequency 400 Hz, calibration 1.0 this is about
\* 1420.5 N and 144.85 kgf
C11_Tension ==
    /\ C11_Formula
    /\ TensionApplied /\ probe.arg = C11_Example =>
        /\ roundsTo(probe.out.tensionN, 14205, 10)
        /\ roundsTo(probe.out.tensionKgf, 14485, 100)

C11_Witness == TensionApplied /\ probe.arg = C11_Example /\ ~probe.out.tensionN.nan


-----------------------------------------------------------------------------
(* Claims on the page around a session, under Spec *)

\* C12: a session that has ended, whatever its outcome (a result, the no-signal
\* outcome, or the microphone request being rejected), has left the measure
\* button enabled and the status showing Ready, and the button is disabled for
\* as long as a session is in progress.
C12_EndsEnabledAndReady ==
    \A s \in Sessions :
        /\ sess[s].pc = "done" => ~measureBtnDisabled /\ status = "ready"
        /\ InProgress(s) => measureBtnDisabled


-----------------------------------------------------------------------------
(* Claim on the history, under SpecHistory *)

\* measurements are stamped in the order they were made
NewestFirst(h) ==
    \A i \in 1..(Len(h) - 1) : h[i].timestamp > h[i + 1].timestamp

\* session s ends with a result in this step
Measured(s) == sess[s].outcome # "result" /\ sess'[s].outcome = "result"

C13_Insertion ==
    \A s \in Sessions :
        Measured(s) =>
            /\ Len(history') >= 1
            /\ history'[1].timestamp = s
            /\ history' =
                   IF Len(history) + 1 = 11
                   THEN <<history'[1]>> \o SubSeq(history, 1, Len(history) - 1)
                   ELSE <<history'[1]>> \o history

\* C13: starting from a stored history of at most 10 entries, after any
\* sequence of successful measurements, row deletions and clears the history
\* holds at most 10 entries, newest first; each successful measurement inserts
\* its entry at the front and, when that makes 11 entries, removes exactly the
\* last (oldest) one.
C13_HistoryCapped ==
    /\ [](Len(history) <= 10 /\ NewestFirst(history))
    /\ [][C13_Insertion]_vars

\* a measurement has been added to a stored history of 10 entries: its entry is
\* in front and the oldest stored entry is gone
C13_Witness ==
    /\ Len(history) = 10
    /\ history[1].timestamp \in Sessions
    /\ sess[history[1].timestamp].outcome = "result"
    /\ history[2] = storedEntry(1)
    /\ history[10] = storedEntry(9)

====
